---------------------------- MODULE Spec2Model ----------------------------
(***************************************************************************)
(* A model of wik, a file-backed wiki: the Wiki type (Local, Create, Edit,  *)
(* Remove, GetDir, GetPage, Commit, ExecIn) and Breadcrumbs of server.go.   *)
(*                                                                         *)
(* A Go string is a sequence of one-character strings: "/w/a" is           *)
(* <<"/", "w", "/", "a">>.  A literal prefix the code prepends ("# ",       *)
(* "Created ") is kept as one element.                                     *)
(***************************************************************************)
EXTENDS Naturals, Sequences, FiniteSets, TLC

VARIABLES
    root,   \* Wiki.Path, the wiki root directory
    fs,     \* the file system: absolute path -> [isDir, data]
    last,   \* the most recent call: its arguments, its results, the commands it ran
    pc,     \* concurrent EditPage handlers: each handler's position
    arg,    \* concurrent EditPage handlers: the contents each was given
    ret     \* concurrent EditPage handlers: what each wiki.Edit returned

vars == <<root, fs, last, pc, arg, ret>>

----------------------------------------------------------------------------
(* Bounds *)

\* the longest request path, in "/"-separated segments
MaxSegs == 3

\* the longest contents a concurrent Edit is given, in bytes
MaxLen == 2

\* the longest contents Edit is given when calls come one at a time, in bytes
MaxEdit == 1

----------------------------------------------------------------------------
(* Strings *)

Sep == "/"

\* strings.HasPrefix
HasPrefix(s, prefix) ==
    /\ Len(prefix) <= Len(s)
    /\ SubSeq(s, 1, Len(prefix)) = prefix

\* strings.Split(s, "/"), from index i on, the current element starting at start
RECURSIVE SplitFrom(_, _, _)
SplitFrom(s, i, start) ==
    IF i > Len(s) THEN <<SubSeq(s, start, Len(s))>>
    ELSE IF s[i] = Sep THEN <<SubSeq(s, start, i - 1)>> \o SplitFrom(s, i + 1, i + 1)
    ELSE SplitFrom(s, i + 1, start)

\* strings.Split(s, "/")
Split(s) == SplitFrom(s, 1, 1)

\* strings.Join(elems, "/")
RECURSIVE JoinSep(_)
JoinSep(elems) ==
    IF elems = <<>> THEN <<>>
    ELSE IF Len(elems) = 1 THEN elems[1]
    ELSE elems[1] \o <<Sep>> \o JoinSep(Tail(elems))

Dot == <<".">>
DotDot == <<".", ".">>

\* filepath.Clean's pass over the elements: "" and "." are dropped, ".." removes
\* the element before it, stays when there is none to remove in a relative path,
\* and is dropped at the top of a rooted one
RECURSIVE CleanElems(_, _, _)
CleanElems(elems, out, rooted) ==
    IF elems = <<>> THEN out
    ELSE LET e == Head(elems)
             rest == Tail(elems)
         IN  IF e = <<>> \/ e = Dot THEN CleanElems(rest, out, rooted)
             ELSE IF e = DotDot
             THEN IF out # <<>> /\ out[Len(out)] # DotDot
                  THEN CleanElems(rest, SubSeq(out, 1, Len(out) - 1), rooted)
                  ELSE IF rooted THEN CleanElems(rest, out, rooted)
                  ELSE CleanElems(rest, Append(out, e), rooted)
             ELSE CleanElems(rest, Append(out, e), rooted)

\* filepath.Clean
Clean(s) ==
    LET rooted == s # <<>> /\ s[1] = Sep
        body == JoinSep(CleanElems(Split(s), <<>>, rooted))
        res == IF rooted THEN <<Sep>> \o body ELSE body
    IN  IF res = <<>> THEN Dot ELSE res

\* filepath.Join: leading empty elements are skipped, the rest joined and cleaned
RECURSIVE Join(_)
Join(elems) ==
    IF elems = <<>> THEN <<>>
    ELSE IF Head(elems) = <<>> THEN Join(Tail(elems))
    ELSE Clean(JoinSep(elems))

\* the index of the last separator of s at or before i, 0 when there is none
RECURSIVE LastSepFrom(_, _)
LastSepFrom(s, i) ==
    IF i = 0 THEN 0 ELSE IF s[i] = Sep THEN i ELSE LastSepFrom(s, i - 1)

LastSep(s) == LastSepFrom(s, Len(s))

\* filepath.Dir
Dir(p) == Clean(SubSeq(p, 1, LastSep(p)))

----------------------------------------------------------------------------
(* Wiki.Local *)

NoErr == "nil"
ErrOutside == "path outside of repo"

DotGit == <<".", "g", "i", "t">>

LocalTest(p, wpath) ==
    HasPrefix(p, wpath) /\ ~HasPrefix(p, Join(<<wpath, DotGit>>))

Local(wpath, path) ==
    LET p == Clean(Join(<<wpath, path>>))
    IN  IF LocalTest(p, wpath)
        THEN [p |-> p, err |-> NoErr]
        ELSE [p |-> <<>>, err |-> ErrOutside]

----------------------------------------------------------------------------
(* The file system under os and ioutil *)

ENOENT == "no such file or directory"
ENOTDIR == "not a directory"
EISDIR == "is a directory"
ENOTEMPTY == "directory not empty"
EIO == "input/output error"

DirEntry == [isDir |-> TRUE, data |-> <<>>]
FileEntry(data) == [isDir |-> FALSE, data |-> data]

\* The file system maps the elements of a path, as the kernel walks them from
\* "/", to the entry there: "/w/a" is looked up as <<"w", "a">>, "/" as <<>>.
\* Every path the wiki hands to os and ioutil is cleaned, so it holds no "."
\* and no ".." element.
Resolve(p) == SelectSeq(Split(p), LAMBDA e : e # <<>>)

Parent(k) == SubSeq(k, 1, Len(k) - 1)

Exists(f, k) == k \in DOMAIN f
IsDirAt(f, k) == Exists(f, k) /\ f[k].isDir
IsFileAt(f, k) == Exists(f, k) /\ ~f[k].isDir

\* the entries of the directory at k
Children(f, k) == {q \in DOMAIN f : q # <<>> /\ Parent(q) = k}

\* the error of walking to the directory that holds k
RECURSIVE ParentErr(_, _)
ParentErr(f, k) ==
    IF k = <<>> \/ IsDirAt(f, Parent(k)) THEN NoErr
    ELSE IF Exists(f, Parent(k)) THEN ENOTDIR
    ELSE IF ParentErr(f, Parent(k)) = NoErr THEN ENOENT
    ELSE ParentErr(f, Parent(k))

\* the error of looking up an entry that is not there
LookupErr(f, k) == IF ParentErr(f, k) = NoErr THEN ENOENT ELSE ParentErr(f, k)

\* os.MkdirAll on the elements of a path
RECURSIVE MkdirAllAt(_, _)
MkdirAllAt(f, k) ==
    IF Exists(f, k) THEN f
    ELSE LET f2 == MkdirAllAt(f, Parent(k))
         IN  IF IsDirAt(f2, Parent(k)) THEN f2 @@ (k :> DirEntry) ELSE f2

\* os.MkdirAll(d, 0777): the file system it leaves (Create drops its error)
MkdirAll(f, d) == MkdirAllAt(f, Resolve(d))

\* os.OpenFile(p, O_WRONLY|O_CREATE|O_TRUNC, 0600), the first step of ioutil.WriteFile
OpenTrunc(f, p) ==
    LET k == Resolve(p)
    IN  IF Exists(f, k)
        THEN IF f[k].isDir THEN [fs |-> f, err |-> EISDIR]
             ELSE [fs |-> [f EXCEPT ![k] = FileEntry(<<>>)], err |-> NoErr]
        ELSE IF ParentErr(f, k) # NoErr THEN [fs |-> f, err |-> ParentErr(f, k)]
        ELSE [fs |-> f @@ (k :> FileEntry(<<>>)), err |-> NoErr]

\* the bytes of a file after data is written at offset 0 of it: bytes beyond
\* the written ones stay
Overwrite(old, data) == data \o SubSeq(old, Len(data) + 1, Len(old))

\* f.Write(data) on a file opened by OpenTrunc, which left its offset at 0
WriteAt(f, p, data) ==
    LET k == Resolve(p)
    IN  [f EXCEPT ![k] = FileEntry(Overwrite(f[k].data, data))]

\* ioutil.WriteFile(p, data, 0600); ioOk is whether the device takes the write
WriteFile(f, p, data, ioOk) ==
    LET o == OpenTrunc(f, p)
    IN  IF o.err # NoErr THEN o
        ELSE IF ~ioOk THEN [fs |-> o.fs, err |-> EIO]
        ELSE [fs |-> WriteAt(o.fs, p, data), err |-> NoErr]

\* os.Remove(p): unlinks a file, removes an empty directory
OsRemove(f, p) ==
    LET k == Resolve(p)
    IN  IF ~Exists(f, k) THEN [fs |-> f, err |-> LookupErr(f, k)]
        ELSE IF f[k].isDir /\ Children(f, k) # {} THEN [fs |-> f, err |-> ENOTEMPTY]
        ELSE [fs |-> [q \in DOMAIN f \ {k} |-> f[q]], err |-> NoErr]

\* ioutil.ReadFile(p)
ReadFile(f, p) ==
    LET k == Resolve(p)
    IN  IF ~Exists(f, k) THEN [body |-> <<>>, err |-> LookupErr(f, k)]
        ELSE IF f[k].isDir THEN [body |-> <<>>, err |-> EISDIR]
        ELSE [body |-> f[k].data, err |-> NoErr]

\* the byte order of the characters file names are made of
Ord(c) ==
    CASE c = "." -> 46 [] c = "/" -> 47
      [] c = "a" -> 97 [] c = "b" -> 98 [] c = "c" -> 99 [] c = "d" -> 100
      [] c = "g" -> 103 [] c = "h" -> 104 [] c = "i" -> 105 [] c = "t" -> 116
      [] c = "w" -> 119 [] c = "x" -> 120 [] c = "y" -> 121

\* s < t as Go compares strings
RECURSIVE StrLess(_, _)
StrLess(s, t) ==
    IF t = <<>> THEN FALSE
    ELSE IF s = <<>> THEN TRUE
    ELSE IF s[1] = t[1] THEN StrLess(Tail(s), Tail(t))
    ELSE Ord(s[1]) < Ord(t[1])

\* the entries S in the order of their names
RECURSIVE SortByName(_)
SortByName(S) ==
    IF S = {} THEN <<>>
    ELSE LET m == CHOOSE q \in S : \A r \in S \ {q} : StrLess(q[Len(q)], r[Len(r)])
         IN  <<m>> \o SortByName(S \ {m})

\* ioutil.ReadDir(p): the entries of the directory, sorted by file name
ReadDir(f, p) ==
    LET k == Resolve(p)
    IN  IF ~Exists(f, k) THEN [files |-> <<>>, err |-> LookupErr(f, k)]
        ELSE IF ~f[k].isDir THEN [files |-> <<>>, err |-> ENOTDIR]
        ELSE LET qs == SortByName(Children(f, k))
             IN  [files |-> [i \in 1..Len(qs) |->
                                [Name |-> qs[i][Len(qs[i])], IsDir |-> f[qs[i]].isDir]],
                  err |-> NoErr]

----------------------------------------------------------------------------
(* Git commands *)

\* Wiki.ExecIn: the command as run, and cmd.Run()'s error
ExecIn(wpath, command, args, ok) ==
    [dir |-> wpath, command |-> command, args |-> args,
     err |-> IF ok THEN NoErr ELSE "exit status 1"]

\* Commit as it would be if it returned the error of the first command to fail
CommitReturnsError(wpath, path, message, oks) ==
    [cmds |-> << ExecIn(wpath, "git", <<"add", "--all", path>>, oks[1]),
                 ExecIn(wpath, "git", <<"commit", "-m", message>>, oks[2]) >>,
     err |-> IF ~oks[1] \/ ~oks[2] THEN "exit status 1" ELSE NoErr]

\* Wiki.Commit: git add, then git commit; both errors are dropped
Commit(wpath, path, message, oks) ==
    [cmds |-> << ExecIn(wpath, "git", <<"add", "--all", path>>, oks[1]),
                 ExecIn(wpath, "git", <<"commit", "-m", message>>, oks[2]) >>,
     err |-> NoErr]

----------------------------------------------------------------------------
(* Mutating operations: each gives the file system it leaves, the commands *)
(* it ran and the error it returns                                         *)

Outcome(f, cmds, err) == [fs |-> f, cmds |-> cmds, err |-> err]

\* Wiki.Create
WikiCreate(wpath, f, path, ioOk, oks) ==
    LET l == Local(wpath, path)
    IN  IF l.err # NoErr THEN Outcome(f, <<>>, l.err)
        ELSE LET made == MkdirAll(f, Dir(l.p))
                 w == WriteFile(made, l.p, <<"# ">> \o path, ioOk)
             IN  IF w.err # NoErr THEN Outcome(w.fs, <<>>, w.err)
                 ELSE LET c == Commit(wpath, l.p, <<"Created ">> \o path, oks)
                      IN  Outcome(w.fs, c.cmds, c.err)

\* Edit as it would be if it dropped ioutil.WriteFile's error
WikiEditDropsWriteError(wpath, f, path, contents, ioOk, oks) ==
    LET l == Local(wpath, path)
    IN  IF l.err # NoErr THEN Outcome(f, <<>>, l.err)
        ELSE LET w == WriteFile(f, l.p, contents, ioOk)
                 c == Commit(wpath, l.p, <<"Edit to ">> \o path, oks)
             IN  Outcome(w.fs, c.cmds, c.err)

\* Wiki.Edit
WikiEdit(wpath, f, path, contents, ioOk, oks) ==
    LET l == Local(wpath, path)
    IN  IF l.err # NoErr THEN Outcome(f, <<>>, l.err)
        ELSE LET w == WriteFile(f, l.p, contents, ioOk)
             IN  IF w.err # NoErr THEN Outcome(w.fs, <<>>, w.err)
                 ELSE LET c == Commit(wpath, l.p, <<"Edit to ">> \o path, oks)
                      IN  Outcome(w.fs, c.cmds, c.err)

\* Remove as it would be if it dropped os.Remove's error
WikiRemoveDropsError(wpath, f, path, oks) ==
    LET l == Local(wpath, path)
    IN  IF l.err # NoErr THEN Outcome(f, <<>>, l.err)
        ELSE LET r == OsRemove(f, l.p)
                 c == Commit(wpath, l.p, <<"Deleted ">> \o path, oks)
             IN  Outcome(r.fs, c.cmds, c.err)

\* Wiki.Remove
WikiRemove(wpath, f, path, oks) ==
    LET l == Local(wpath, path)
    IN  IF l.err # NoErr THEN Outcome(f, <<>>, l.err)
        ELSE LET r == OsRemove(f, l.p)
             IN  IF r.err # NoErr THEN Outcome(r.fs, <<>>, r.err)
                 ELSE LET c == Commit(wpath, l.p, <<"Deleted ">> \o path, oks)
                      IN  Outcome(r.fs, c.cmds, c.err)

----------------------------------------------------------------------------
(* Reading operations *)

EmptyPage == [Path |-> <<>>, URI |-> <<>>, Raw |-> <<>>]

\* the test as it would be if it compared the name with "." instead
VisibleUnlessDot(n) == n # Dot

\* the test of Wiki.GetDir's loop: the name does not begin with "."
Visible(n) == ~HasPrefix(n, Dot)

\* the loop of Wiki.GetDir over files[ix..]
RECURSIVE VisibleInfos(_, _, _)
VisibleInfos(files, ix, path) ==
    IF ix > Len(files) THEN <<>>
    ELSE LET n == files[ix].Name
         IN  IF Visible(n)
             THEN <<[Name |-> n, URI |-> Join(<<path, n>>), IsDir |-> files[ix].IsDir]>>
                      \o VisibleInfos(files, ix + 1, path)
             ELSE VisibleInfos(files, ix + 1, path)

\* Wiki.GetDir
WikiGetDir(wpath, f, path) ==
    LET l == Local(wpath, path)
    IN  IF l.err # NoErr THEN [res |-> <<>>, err |-> l.err]
        ELSE LET d == ReadDir(f, l.p)
             IN  IF d.err # NoErr THEN [res |-> <<>>, err |-> d.err]
                 ELSE [res |-> VisibleInfos(d.files, 1, path), err |-> NoErr]

\* Wiki.GetPage
WikiGetPage(wpath, f, path) ==
    LET l == Local(wpath, path)
    IN  IF l.err # NoErr THEN [page |-> EmptyPage, err |-> l.err]
        ELSE LET b == ReadFile(f, l.p)
             IN  IF b.err # NoErr THEN [page |-> EmptyPage, err |-> b.err]
                 ELSE [page |-> [Path |-> l.p, URI |-> Clean(path), Raw |-> b.body],
                       err |-> NoErr]

----------------------------------------------------------------------------
(* Breadcrumbs *)

Crumb(name, uri) == [Name |-> name, URI |-> uri]

\* the loop of Breadcrumbs over split[ix..len(split)-1)
RECURSIVE CrumbLoop(_, _)
CrumbLoop(split, ix) ==
    IF ix > Len(split) - 1 THEN <<>>
    ELSE IF split[ix] # <<>>
    THEN <<Crumb(split[ix], JoinSep(SubSeq(split, 1, ix)))>> \o CrumbLoop(split, ix + 1)
    ELSE CrumbLoop(split, ix + 1)

\* Breadcrumbs as it would be if its loop ran over the last element too
BreadcrumbsWithLast(path) ==
    <<Crumb(<<"home">>, <<Sep>>)>> \o CrumbLoop(Append(Split(path), <<>>), 1)

Breadcrumbs(path) ==
    <<Crumb(<<"home">>, <<Sep>>)>> \o CrumbLoop(Split(path), 1)


----------------------------------------------------------------------------
(* Inputs *)

\* the wiki roots tried
Roots == { <<"/", "w">>, <<"/", "h", "/", "w">> }

\* the root of the wiki the page store runs on
WikiRoot == <<"/", "w">>

\* the elements request paths are made of
PathElems ==
    { <<>>, Dot, DotDot, <<"a">>, <<"w">>, <<"w", "x">>, DotGit, <<".", "g", "i", "t", "x">> }

\* every request path of at most MaxSegs elements
ReqPaths ==
    {<<>>} \cup {JoinSep(es) : es \in UNION {[1..n -> PathElems] : n \in 1..MaxSegs}}

\* the request paths given to the page store
PagePaths ==
    { <<>>,
      <<"a">>,
      <<"d">>,
      <<"d", "/", "a">>,
      <<".", "g", "i", "t", "/", "c">> }

\* the contents given to Edit: every run of at most MaxEdit bytes
EditContents == UNION {[1..n -> {"x"}] : n \in 0..MaxEdit}

Bytes == {"x", "y"}

\* every byte sequence of at most MaxLen bytes
RaceContents == UNION {[1..n -> Bytes] : n \in 0..MaxLen}

\* an initialized wiki: the root and its .git directory
InitFs ==
    (<<>> :> DirEntry) @@ (Resolve(WikiRoot) :> DirEntry)
        @@ (Resolve(Join(<<WikiRoot, DotGit>>)) :> DirEntry)

----------------------------------------------------------------------------
(* The page store, one call at a time *)

Call(op, path, data, err, cmds, out) ==
    [op |-> op, path |-> path, data |-> data, err |-> err, cmds |-> cmds, out |-> out]

NoCall == Call("none", <<>>, <<>>, NoErr, <<>>, <<>>)

Idle == <<"idle">>

Init ==
    /\ root = WikiRoot
    /\ fs = InitFs
    /\ last = NoCall
    /\ pc = Idle /\ arg = Idle /\ ret = Idle

Create ==
    \E path \in PagePaths, ioOk \in BOOLEAN, oks \in BOOLEAN \X BOOLEAN :
        \E r \in {WikiCreate(root, fs, path, ioOk, oks)} :
            /\ fs' = r.fs
            /\ last' = Call("Create", path, <<>>, r.err, r.cmds, <<>>)
            /\ UNCHANGED <<root, pc, arg, ret>>

Edit ==
    \E path \in PagePaths, contents \in EditContents, ioOk \in BOOLEAN,
       oks \in BOOLEAN \X BOOLEAN :
        \E r \in {WikiEdit(root, fs, path, contents, ioOk, oks)} :
            /\ fs' = r.fs
            /\ last' = Call("Edit", path, contents, r.err, r.cmds, <<>>)
            /\ UNCHANGED <<root, pc, arg, ret>>

Remove ==
    \E path \in PagePaths, oks \in BOOLEAN \X BOOLEAN :
        \E r \in {WikiRemove(root, fs, path, oks)} :
            /\ fs' = r.fs
            /\ last' = Call("Remove", path, <<>>, r.err, r.cmds, <<>>)
            /\ UNCHANGED <<root, pc, arg, ret>>

GetDir ==
    \E path \in PagePaths :
        \E r \in {WikiGetDir(root, fs, path)} :
            /\ last' = Call("GetDir", path, <<>>, r.err, <<>>, r.res)
            /\ UNCHANGED <<root, fs, pc, arg, ret>>

GetPage ==
    \E path \in PagePaths :
        \E r \in {WikiGetPage(root, fs, path)} :
            /\ last' = Call("GetPage", path, <<>>, r.err, <<>>, r.page)
            /\ UNCHANGED <<root, fs, pc, arg, ret>>

Next == Create \/ Edit \/ Remove \/ GetDir \/ GetPage

Spec == Init /\ [][Next]_vars

----------------------------------------------------------------------------
(* The path functions: a root and a request path are drawn, then one call *)

InitPath ==
    /\ root \in Roots
    /\ arg \in ReqPaths
    /\ fs = InitFs
    /\ last = NoCall
    /\ pc = Idle /\ ret = Idle

LocalCall ==
    /\ last = NoCall
    /\ \E l \in {Local(root, arg)} :
          last' = Call("Local", arg, <<>>, l.err, <<>>, l.p)
    /\ UNCHANGED <<root, fs, pc, arg, ret>>

BreadcrumbsCall ==
    /\ last = NoCall
    /\ last' = Call("Breadcrumbs", arg, <<>>, NoErr, <<>>, Breadcrumbs(arg))
    /\ UNCHANGED <<root, fs, pc, arg, ret>>

NextPath == LocalCall \/ BreadcrumbsCall

SpecPath == InitPath /\ [][NextPath]_vars

----------------------------------------------------------------------------
(* Two EditPage handlers run wiki.Edit on one page at once.  net/http runs  *)
(* each request on its own goroutine and Edit takes no lock, so the steps   *)
(* of the two calls interleave: open and truncate, write, commit.           *)

Procs == {1, 2}

\* the page both handlers edit
RacePath == <<"a">>

InitRace ==
    /\ root = WikiRoot
    /\ fs \in { InitFs,
                InitFs @@ (Resolve(Local(WikiRoot, RacePath).p) :> FileEntry(<<"x", "x", "x">>)) }
    /\ last = NoCall
    /\ pc = [i \in Procs |-> "call"]
    /\ arg \in {a \in [Procs -> RaceContents] : a[1] # a[2]}
    /\ ret = [i \in Procs |-> "running"]

\* Edit up to the open of ioutil.WriteFile
EditOpen(i) ==
    /\ pc[i] = "call"
    /\ \E l \in {Local(root, RacePath)} :
          IF l.err # NoErr
          THEN /\ ret' = [ret EXCEPT ![i] = l.err]
               /\ pc' = [pc EXCEPT ![i] = "done"]
               /\ UNCHANGED fs
          ELSE \E o \in {OpenTrunc(fs, l.p)} :
                  IF o.err # NoErr
                  THEN /\ ret' = [ret EXCEPT ![i] = o.err]
                       /\ pc' = [pc EXCEPT ![i] = "done"]
                       /\ UNCHANGED fs
                  ELSE /\ fs' = o.fs
                       /\ pc' = [pc EXCEPT ![i] = "opened"]
                       /\ UNCHANGED ret
    /\ UNCHANGED <<root, last, arg>>

\* the write and the close of ioutil.WriteFile; the device may fail the write
EditWrite(i) ==
    /\ pc[i] = "opened"
    /\ \E ioOk \in BOOLEAN :
          IF ioOk
          THEN /\ fs' = WriteAt(fs, Local(root, RacePath).p, arg[i])
               /\ pc' = [pc EXCEPT ![i] = "written"]
               /\ UNCHANGED ret
          ELSE /\ ret' = [ret EXCEPT ![i] = EIO]
               /\ pc' = [pc EXCEPT ![i] = "done"]
               /\ UNCHANGED fs
    /\ UNCHANGED <<root, last, arg>>

\* the commit, and Edit's return
EditCommit(i) ==
    /\ pc[i] = "written"
    /\ \E oks \in BOOLEAN \X BOOLEAN :
          ret' = [ret EXCEPT ![i] =
                     Commit(root, Local(root, RacePath).p, <<"Edit to ">> \o RacePath, oks).err]
    /\ pc' = [pc EXCEPT ![i] = "done"]
    /\ UNCHANGED <<root, fs, last, arg>>

NextRace == \E i \in Procs : EditOpen(i) \/ EditWrite(i) \/ EditCommit(i)

SpecRace == InitRace /\ [][NextRace]_vars

----------------------------------------------------------------------------
(* Properties *)

\* p is the directory d or lies beneath it
Within(d, p) == p = d \/ HasPrefix(p, d \o <<Sep>>)

Mutators == {"Create", "Edit", "Remove"}

\* C1: whenever Local returns a path without error, that path is the wiki
\* root itself or a descendant of the wiki root.
C1_LocalStaysInRoot ==
    (last.op = "Local" /\ last.err = NoErr) => Within(root, last.out)

\* C2: for a request path whose cleaned join with the root lies within the
\* root, Local returns the "path outside of repo" error exactly when the
\* cleaned path is the .git directory or lies beneath it, and otherwise
\* returns the cleaned path and no error.
C2_LocalRejectsExactlyGit ==
    last.op = "Local" =>
        LET p == Clean(JoinSep(<<root, last.path>>))
        IN  Within(root, p) =>
                IF Within(root \o <<Sep>> \o DotGit, p)
                THEN last.err = ErrOutside
                ELSE last.err = NoErr /\ last.out = p

\* C3: a Create that succeeds on a valid path at which a file already exists,
\* holding some contents, leaves the file's contents as they were before the
\* call: the "# path" placeholder is not written over them.
C3_CreateKeepsExisting ==
    [][ \A path \in PagePaths :
          LET k == Resolve(Local(root, path).p)
          IN  ( /\ last'.op = "Create" /\ last'.path = path /\ last'.err = NoErr
                /\ Local(root, path).err = NoErr
                /\ IsFileAt(fs, k) /\ fs[k].data # <<>> )
              => (IsFileAt(fs', k) /\ fs'[k].data = fs[k].data) ]_vars

\* C4: whenever Edit(path, contents) returns no error, a GetPage(path) issued
\* next returns no error and a Page whose Raw text equals contents.
C4_EditThenGetPage ==
    (last.op = "Edit" /\ last.err = NoErr) =>
        LET g == WikiGetPage(root, fs, last.path)
        IN  g.err = NoErr /\ g.page.Raw = last.data

C4_Witness ==
    /\ last.op = "Edit" /\ last.err = NoErr /\ last.data # <<>>
    /\ WikiGetPage(root, fs, last.path).page.Raw = last.data

\* C5: whenever Remove(path) returns no error, a GetPage(path) issued next
\* returns an error; and Remove(path) returns an error when the path is
\* invalid or no file exists at it.
C5_RemoveThenGetPage ==
    [][ /\ (last'.op = "Remove" /\ last'.err = NoErr)
              => WikiGetPage(root', fs', last'.path).err # NoErr
        /\ \A path \in PagePaths :
              ( /\ last'.op = "Remove" /\ last'.path = path
                /\ \/ Local(root, path).err # NoErr
                   \/ ~Exists(fs, Resolve(Local(root, path).p)) )
              => last'.err # NoErr ]_vars

C5_Witness ==
    /\ last.op = "Remove" /\ last.err = NoErr
    /\ WikiGetPage(root, fs, last.path).err = ENOENT

\* C6: every Create, Edit or Remove that returns success has run two git
\* commands in the wiki root, "add --all <sanitized path>" and then
\* "commit -m <message>", and the call returns success whether or not either
\* command failed.
C6_CommitAfterMutation ==
    last.op \in Mutators =>
        /\ last.err = NoErr =>
              /\ Len(last.cmds) = 2
              /\ \A i \in 1..2 : last.cmds[i].dir = root /\ last.cmds[i].command = "git"
              /\ last.cmds[1].args = <<"add", "--all", Local(root, last.path).p>>
              /\ Len(last.cmds[2].args) = 3
              /\ last.cmds[2].args[1] = "commit" /\ last.cmds[2].args[2] = "-m"
        /\ last.cmds # <<>> => last.err = NoErr

C6_Witness ==
    /\ last.op \in Mutators /\ last.err = NoErr
    /\ Len(last.cmds) = 2
    /\ last.cmds[1].err # NoErr /\ last.cmds[2].err # NoErr

\* C7: for a valid path naming a directory, GetDir returns exactly one
\* PageInfo per immediate child whose name does not begin with ".", none for a
\* child whose name begins with ".", each with IsDir true iff the child is a
\* directory, Name the child's name and URI the request path joined with it.
C7_GetDirListsVisible ==
    last.op = "GetDir" =>
        LET l == Local(root, last.path)
            k == Resolve(l.p)
            out == last.out
        IN  (l.err = NoErr /\ IsDirAt(fs, k)) =>
                /\ last.err = NoErr
                /\ \A q \in Children(fs, k) :
                      LET n == q[Len(q)]
                          at == {i \in 1..Len(out) : out[i].Name = n}
                      IN  IF n[1] = "." THEN at = {}
                          ELSE /\ Cardinality(at) = 1
                               /\ \A i \in at :
                                     /\ out[i].IsDir = fs[q].isDir
                                     /\ out[i].URI = Join(<<last.path, n>>)
                /\ \A i \in 1..Len(out) :
                      \E q \in Children(fs, k) : q[Len(q)] = out[i].Name

C7_Witness ==
    /\ last.op = "GetDir" /\ last.err = NoErr
    /\ \E i, j \in 1..Len(last.out) : last.out[i].IsDir /\ ~last.out[j].IsDir
    /\ \E q \in Children(fs, Resolve(Local(root, last.path).p)) : q[Len(q)][1] = "."

\* the ends of the non-empty segments of path that a "/" follows
SegEnds(path) == {j \in 1..(Len(path) - 1) : path[j] # Sep /\ path[j + 1] = Sep}

\* where the segment ending at j starts
SegStart(path, j) ==
    CHOOSE i \in 1..j : /\ \A m \in i..j : path[m] # Sep
                        /\ (i = 1 \/ path[i - 1] = Sep)

\* C8: Breadcrumbs(path) returns the crumb {home, /} first, followed, in path
\* order, by exactly one crumb for each non-empty segment of path other than
\* the last, with Name the segment and URI the prefix of path up to and
\* including it; so Breadcrumbs("/a/b/c") is [{home,/}, {a,/a}, {b,/a/b}].
C8_Breadcrumbs ==
    /\ last.op = "Breadcrumbs" =>
          LET path == last.path
              out == last.out
          IN  /\ Len(out) = 1 + Cardinality(SegEnds(path))
              /\ out[1] = Crumb(<<"home">>, <<Sep>>)
              /\ \A j \in SegEnds(path) :
                    out[1 + Cardinality({e \in SegEnds(path) : e <= j})]
                        = Crumb(SubSeq(path, SegStart(path, j), j), SubSeq(path, 1, j))
    /\ Breadcrumbs(<<"/", "a", "/", "b", "/", "c">>)
          = << Crumb(<<"home">>, <<"/">>),
               Crumb(<<"a">>, <<"/", "a">>),
               Crumb(<<"b">>, <<"/", "a", "/", "b">>) >>

C8_Witness ==
    /\ last.op = "Breadcrumbs"
    /\ Len(last.out) = 3
    /\ last.path[Len(last.path)] # Sep

\* C9: when two Edit calls on the same page run concurrently with different
\* contents and both return success, then once both have returned the page's
\* contents equal the contents passed to one of the two calls, never a
\* mixture of them.
C9_LastWriteWins ==
    (\A i \in Procs : pc[i] = "done" /\ ret[i] = NoErr) =>
        LET k == Resolve(Local(root, RacePath).p)
        IN  IsFileAt(fs, k) /\ \E i \in Procs : fs[k].data = arg[i]

\* C10: a Create, Edit or Remove that returns an error leaves every file and
\* directory as it was and runs no git command.
C10_ErrorChangesNothing ==
    [][ (last'.op \in Mutators /\ last'.err # NoErr)
            => (fs' = fs /\ last'.cmds = <<>>) ]_vars

=============================================================================
